---------------------------- MODULE Spec2Model ----------------------------
(***************************************************************************)
(* A model of run_flights_sql.py: the runner of a PostgreSQL dump file.    *)
(*                                                                         *)
(* Text is modelled character by character: a Python str is a sequence of  *)
(* one-character strings, so that the regular expressions, strip() and     *)
(* split() of the source are computed, not assumed.                        *)
(***************************************************************************)
EXTENDS Integers, Sequences, FiniteSets, TLC

VARIABLES
    \* execute_sql_file
    pc,             \* position of the run in the code
    file_exists,    \* sql_file.exists()
    content,        \* the text of the dump file
    parts,          \* re.split(r'\\connect\s+(\w+)', content)
    i,              \* the index of the for loop of line 51
    current_db,
    conn,           \* the connection handle, 0 for None
    conns,          \* every connection opened so far, by handle
    result,         \* what execute_sql_file returned: "none", "True", "False"
    exc,            \* the exception on its way to the handlers of line 73
    \* execute_sql_statements
    cursor,         \* "none", "open", "closed"
    copy_parts,     \* re.split(copy_pattern, sql_content)
    part_idx,
    exec_statements,\* split_sql_statements(part) of the part being executed
    stmt_idx,
    log,            \* the calls made on the database and the lines printed
    \* split_sql_statements
    sql_text,
    line_idx,
    statements,
    current,
    dollar_quote,
    split_trace,    \* per line scanned: the tag active after it, and whether
                    \* a statement was appended on it
    \* __main__
    password,       \* DB_CONFIG["password"]
    exit_code       \* the argument of sys.exit, -1 before it is called

vars == <<pc, file_exists, content, parts, i, current_db, conn, conns, result,
          exc, cursor, copy_parts, part_idx, exec_statements, stmt_idx, log,
          sql_text, line_idx, statements, current, dollar_quote, split_trace,
          password, exit_code>>

runVars == <<file_exists, content, parts, i, current_db, conn, conns, result,
             exc, cursor, copy_parts, part_idx, exec_statements, stmt_idx, log>>

splitVars == <<sql_text, line_idx, statements, current, dollar_quote,
               split_trace>>

mainVars == <<password, exit_code>>

-----------------------------------------------------------------------------
(* Characters and the str methods the source uses.                         *)

None == <<>>

NL == "\n"

\* the outcome of a call that returns
Ok == [kind |-> "ok", msg |-> <<>>]

\* str.strip() and \s: the whitespace characters
IsSpace(c) == c \in {" ", "\t", "\n", "\r"}

UpperLetters == <<"A","B","C","D","E","F","G","H","I","J","K","L","M",
                  "N","O","P","Q","R","S","T","U","V","W","X","Y","Z">>

LowerLetters == <<"a","b","c","d","e","f","g","h","i","j","k","l","m",
                  "n","o","p","q","r","s","t","u","v","w","x","y","z">>

Digits == {"0","1","2","3","4","5","6","7","8","9"}

\* \w: letters, digits and the underscore
IsWord(c) ==
    \/ \E k \in 1..26 : c = UpperLetters[k] \/ c = LowerLetters[k]
    \/ c \in Digits
    \/ c = "_"

\* str.lower() of one character
LowerChar(c) ==
    IF \E k \in 1..26 : c = UpperLetters[k]
    THEN LowerLetters[CHOOSE k \in 1..26 : c = UpperLetters[k]]
    ELSE c

\* str.lower()
Lower(s) == [k \in 1..Len(s) |-> LowerChar(s[k])]

\* s[a-1:b] of Python, empty when b < a
Slice(s, a, b) == IF b < a THEN <<>> ELSE SubSeq(s, a, b)

\* whether sub occurs in s at position p
OccursAt(s, sub, p) ==
    /\ p >= 1
    /\ p + Len(sub) - 1 <= Len(s)
    /\ \A k \in 1..Len(sub) : s[p + k - 1] = sub[k]

\* `sub in s`
Contains(s, sub) == \E p \in 1..(Len(s) + 1) : OccursAt(s, sub, p)

\* the position of the first c in s at or after p, 0 when there is none
FindChar(s, c, p) ==
    LET hits == {k \in p..Len(s) : s[k] = c}
    IN  IF hits = {} THEN 0 ELSE CHOOSE k \in hits : \A j \in hits : k <= j

\* a mutant: strip() that takes nothing off
StripNothing(s) == s

\* str.strip()
Strip(s) ==
    LET keep == {k \in 1..Len(s) : ~IsSpace(s[k])}
    IN  IF keep = {} THEN <<>>
        ELSE Slice(s, CHOOSE k \in keep : \A j \in keep : k <= j,
                      CHOOSE k \in keep : \A j \in keep : j <= k)

\* str.endswith(c) for a one-character c
EndsWith(s, c) == Len(s) > 0 /\ s[Len(s)] = c

\* str.split('\n')
RECURSIVE SplitLines(_)
SplitLines(s) ==
    LET k == FindChar(s, NL, 1)
    IN  IF k = 0 THEN <<s>>
        ELSE <<Slice(s, 1, k - 1)>> \o SplitLines(Slice(s, k + 1, Len(s)))

\* '\n'.join(ls)
RECURSIVE JoinLines(_)
JoinLines(ls) ==
    IF Len(ls) = 0 THEN <<>>
    ELSE IF Len(ls) = 1 THEN ls[1]
    ELSE ls[1] \o <<NL>> \o JoinLines(Tail(ls))

\* the sequences of ss put end to end
RECURSIVE Concat(_)
Concat(ss) == IF Len(ss) = 0 THEN <<>> ELSE ss[1] \o Concat(Tail(ss))

-----------------------------------------------------------------------------
(* split_sql_statements                                                    *)

\* re.search(r'(\$[^$]*\$)', line): the text from the first `$` of the line
\* to the next one, None when the line holds fewer than two
SearchDollar(line) ==
    LET a == FindChar(line, "$", 1)
        b == IF a = 0 THEN 0 ELSE FindChar(line, "$", a + 1)
    IN  IF b = 0 THEN None ELSE Slice(line, a, b)

\* the dollar_quote after a line has been scanned
NextDollarQuote(dq, line) ==
    IF SearchDollar(line) # None
    THEN IF dq = None
         THEN SearchDollar(line)
         ELSE IF Contains(line, dq) THEN None ELSE dq
    ELSE dq

\* a mutant: the test of line 168 without `dollar_quote is None`
IsStatementEndAnyQuote(dq, line) == EndsWith(Strip(line), ";")

\* the test of line 168, on the dollar_quote the scan of the line left
IsStatementEnd(dq, line) == dq = None /\ EndsWith(Strip(line), ";")

\* a mutant: the buffer restarted at every line
AppendLineNoBuffer(cur, line) == line \o <<NL>>

\* line 165
AppendLine(cur, line) == cur \o line \o <<NL>>

\* one iteration of the loop of line 152, on the locals of the function
SplitStep(st, line) ==
    LET dq  == NextDollarQuote(st.dollar_quote, line)
        cur == AppendLine(st.current, line)
    IN  IF IsStatementEnd(dq, line)
        THEN [statements |-> Append(st.statements, cur), current |-> <<>>,
              dollar_quote |-> dq]
        ELSE [statements |-> st.statements, current |-> cur,
              dollar_quote |-> dq]

\* a mutant: the buffer left at the end is emitted whatever it holds
SplitTailKeepBlank(st) == Append(st.statements, st.current)

\* lines 172 to 175
SplitTail(st) ==
    IF Strip(st.current) # <<>>
    THEN Append(st.statements, st.current)
    ELSE st.statements

RECURSIVE SplitLoop(_, _)
SplitLoop(st, ls) ==
    IF Len(ls) = 0 THEN st ELSE SplitLoop(SplitStep(st, ls[1]), Tail(ls))

\* a mutant: the statements come out last first
SplitStatementsReversed(text) ==
    LET st == SplitTail(SplitLoop([statements |-> <<>>, current |-> <<>>,
                                   dollar_quote |-> None], SplitLines(text)))
    IN  [k \in 1..Len(st) |-> st[Len(st) + 1 - k]]

split_sql_statements(text) ==
    SplitTail(SplitLoop([statements |-> <<>>, current |-> <<>>,
                         dollar_quote |-> None], SplitLines(text)))

-----------------------------------------------------------------------------
(* The two regular expressions of the runner.                              *)

\* whether sub occurs in s at position p, letters compared without case
\* (re.IGNORECASE)
OccursAtNoCase(s, sub, p) ==
    /\ p >= 1
    /\ p + Len(sub) - 1 <= Len(s)
    /\ \A k \in 1..Len(sub) : LowerChar(s[p + k - 1]) = LowerChar(sub[k])

\* the last position of the longest run of whitespace that starts at p,
\* p - 1 when s[p] is no whitespace
SpaceRunEnd(s, p) ==
    LET stops == {k \in p..Len(s) : ~IsSpace(s[k])}
    IN  IF stops = {} THEN Len(s)
        ELSE (CHOOSE k \in stops : \A j \in stops : k <= j) - 1

\* the same for a run of \w characters
WordRunEnd(s, p) ==
    LET stops == {k \in p..Len(s) : ~IsWord(s[k])}
    IN  IF stops = {} THEN Len(s)
        ELSE (CHOOSE k \in stops : \A j \in stops : k <= j) - 1

\* the first position of the longest run of whitespace that ends at p,
\* p + 1 when s[p] is no whitespace
SpaceRunStart(s, p) ==
    LET stops == {k \in 1..p : ~IsSpace(s[k])}
    IN  IF stops = {} THEN 1
        ELSE (CHOOSE k \in stops : \A j \in stops : j <= k) + 1

ConnectWord == <<"\\", "c", "o", "n", "n", "e", "c", "t">>

\* r'\\connect\s+(\w+)' matched at position p: <<first position of the
\* group, last position of the match>>, <<0, 0>> when there is no match
ConnectMatchAt(s, p) ==
    IF ~OccursAt(s, ConnectWord, p) THEN <<0, 0>>
    ELSE LET w == SpaceRunEnd(s, p + 8) + 1
             e == WordRunEnd(s, w)
         IN  IF w > p + 8 /\ e >= w THEN <<w, e>> ELSE <<0, 0>>

\* re.split(r'\\connect\s+(\w+)', content): the text before the first
\* match, then for each match its group and the text up to the next match
RECURSIVE ReSplitConnect(_)
ReSplitConnect(s) ==
    LET hits == {p \in 1..Len(s) : ConnectMatchAt(s, p)[1] # 0}
    IN  IF hits = {} THEN <<s>>
        ELSE LET p == CHOOSE q \in hits : \A j \in hits : q <= j
                 m == ConnectMatchAt(s, p)
             IN  <<Slice(s, 1, p - 1), Slice(s, m[1], m[2])>>
                     \o ReSplitConnect(Slice(s, m[2] + 1, Len(s)))

CopyWord == <<"C", "O", "P", "Y">>
FromWord == <<"F", "R", "O", "M">>
StdinWord == <<"s", "t", "d", "i", "n">>

\* r'COPY\s+[^;]+FROM\s+stdin;' matched at position p, without case: the
\* position of its `;`, 0 when there is no match.  No character of the
\* pattern before the last is a `;`, so the `;` is the first one after COPY;
\* `stdin` stands right before it, whitespace before that and FROM before
\* the whitespace; \s+[^;]+ takes what lies between COPY and FROM, at least
\* two characters of which the first is whitespace.
CopyHeaderEnd(s, p) ==
    IF \/ ~OccursAtNoCase(s, CopyWord, p)
       \/ p + 4 > Len(s)
       \/ FindChar(s, ";", p + 4) = 0
    THEN 0
    ELSE LET semi == FindChar(s, ";", p + 4)
             ws   == IF semi - 6 >= 1 THEN SpaceRunStart(s, semi - 6) ELSE 0
         IN  IF /\ IsSpace(s[p + 4])
                /\ OccursAtNoCase(s, StdinWord, semi - 5)
                /\ ws >= 1
                /\ ws <= semi - 6
                /\ OccursAtNoCase(s, FromWord, ws - 4)
                /\ ws - 4 >= p + 6
             THEN semi
             ELSE 0

\* a mutant: the terminator as the source meant it, a backslash and a dot
CopyTerminatorDotOnly(s, e) ==
    /\ e + 3 <= Len(s)
    /\ s[e] = NL
    /\ s[e + 1] = "\\"
    /\ s[e + 2] = "."
    /\ s[e + 3] = NL

\* r'\n\\.\n' matched at position e under re.DOTALL: a newline, a backslash,
\* any one character, a newline
CopyTerminatorAt(s, e) ==
    /\ e + 3 <= Len(s)
    /\ s[e] = NL
    /\ s[e + 1] = "\\"
    /\ s[e + 3] = NL

\* copy_pattern matched at position p: the last position of the match, 0
\* when there is none.  `.*?` ends at the first terminator after the header.
CopyMatchEnd(s, p) ==
    LET semi == CopyHeaderEnd(s, p)
        ends == IF semi = 0 THEN {}
                ELSE {e \in (semi + 1)..Len(s) : CopyTerminatorAt(s, e)}
    IN  IF ends = {} THEN 0
        ELSE (CHOOSE e \in ends : \A j \in ends : e <= j) + 3

\* re.split(copy_pattern, sql_content, flags=re.DOTALL | re.IGNORECASE)
RECURSIVE ReSplitCopy(_)
ReSplitCopy(s) ==
    LET hits == {p \in 1..Len(s) : CopyMatchEnd(s, p) # 0}
    IN  IF hits = {} THEN <<s>>
        ELSE LET p == CHOOSE q \in hits : \A j \in hits : q <= j
                 e == CopyMatchEnd(s, p)
             IN  <<Slice(s, 1, p - 1), Slice(s, p, e)>>
                     \o ReSplitCopy(Slice(s, e + 1, Len(s)))

\* line 101: re.match(r'COPY\s+[^;]+FROM\s+stdin;', part, re.IGNORECASE)
IsCopyBlock(part) == CopyHeaderEnd(part, 1) # 0

CopyEndLine == <<"\\", ".">>

\* a mutant: every line before the terminator is data
DataLinesKeepBlank(ls, in_data) ==
    LET stops == {k \in 1..Len(ls) : Strip(ls[k]) = CopyEndLine}
    IN  IF stops = {} THEN ls
        ELSE Slice(ls, 1, (CHOOSE k \in stops : \A j \in stops : k <= j) - 1)

\* the loop of lines 109 to 114 over lines[1:]
RECURSIVE DataLines(_, _)
DataLines(ls, in_data) ==
    IF Len(ls) = 0 THEN <<>>
    ELSE IF Strip(ls[1]) = CopyEndLine THEN <<>>
    ELSE IF in_data \/ Strip(ls[1]) # <<>>
         THEN <<ls[1]>> \o DataLines(Tail(ls), TRUE)
         ELSE DataLines(Tail(ls), in_data)

\* lines 103 and 104
CopyCommand(part) == SplitLines(part)[1]

\* lines 107 to 119: data_str
CopyData(part) == JoinLines(DataLines(Tail(SplitLines(part)), FALSE))

-----------------------------------------------------------------------------
(* The inputs of the splitter: texts of at most MaxLines lines, each line  *)
(* one of LineVocab.                                                       *)

MaxLines == 4

LineVocab ==
    { <<>>,                                  \* an empty line
      <<" ">>,                               \* a blank line
      <<"a">>,                               \* a line of a longer statement
      <<"a", ";">>,                          \* a;
      <<"a", ";", " ">>,                     \* a; and a trailing blank
      <<"f", " ", "$", "$">>,                \* f $$    opens $$
      <<"$", "$", ";">>,                     \* $$;     closes $$
      <<"$", "t", "$">>,                     \* $t$     another tag
      <<"$", "1", " ", "$", "2", ";">>,      \* $1 $2;  positional parameters
      <<"$", "$", "a", "$", "$", ";">> }     \* $$a$$;  opened and closed

SplitInputs ==
    { JoinLines(ls) : ls \in UNION { [1..n -> LineVocab] : n \in 1..MaxLines } }

RunIdle ==
    /\ file_exists = FALSE
    /\ content = <<>>
    /\ parts = <<>>
    /\ i = 0
    /\ current_db = <<>>
    /\ conn = 0
    /\ conns = <<>>
    /\ result = "none"
    /\ exc = Ok
    /\ cursor = "none"
    /\ copy_parts = <<>>
    /\ part_idx = 0
    /\ exec_statements = <<>>
    /\ stmt_idx = 0
    /\ log = <<>>

\* line 18: the password the file is shipped with
PlaceholderPassword == "your_password_here"

\* the script as shipped, sys.exit not called
MainIdle ==
    /\ password = PlaceholderPassword
    /\ exit_code = -1

SplitIdle ==
    /\ sql_text = <<>>
    /\ line_idx = 0
    /\ statements = <<>>
    /\ current = <<>>
    /\ dollar_quote = None
    /\ split_trace = <<>>

\* lines 147 to 150, on entry to split_sql_statements
InitSplit ==
    /\ pc = "split_loop"
    /\ sql_text \in SplitInputs
    /\ line_idx = 1
    /\ statements = <<>>
    /\ current = <<>>
    /\ dollar_quote = None
    /\ split_trace = <<>>
    /\ RunIdle
    /\ MainIdle

\* one iteration of the loop of line 152
SplitLine ==
    /\ pc = "split_loop"
    /\ line_idx <= Len(SplitLines(sql_text))
    /\ LET line == SplitLines(sql_text)[line_idx]
           st   == SplitStep([statements |-> statements, current |-> current,
                              dollar_quote |-> dollar_quote], line)
       IN  /\ statements' = st.statements
           /\ current' = st.current
           /\ dollar_quote' = st.dollar_quote
           /\ split_trace' = Append(split_trace,
                  [tag |-> st.dollar_quote,
                   emitted |-> Len(st.statements) > Len(statements)])
    /\ line_idx' = line_idx + 1
    /\ UNCHANGED <<pc, sql_text>>
    /\ UNCHANGED runVars
    /\ UNCHANGED mainVars

\* lines 172 to 175, once the loop is over
SplitReturn ==
    /\ pc = "split_loop"
    /\ line_idx > Len(SplitLines(sql_text))
    /\ statements' = SplitTail([statements |-> statements,
                                current |-> current,
                                dollar_quote |-> dollar_quote])
    /\ pc' = "split_returned"
    /\ UNCHANGED <<sql_text, line_idx, current, dollar_quote, split_trace>>
    /\ UNCHANGED runVars
    /\ UNCHANGED mainVars

NextSplit == SplitLine \/ SplitReturn

SpecSplit == InitSplit /\ [][NextSplit]_vars

-----------------------------------------------------------------------------
(* The texts of nested and adjacent dollar-quote tags: at most MaxLines    *)
(* lines, each one of TagVocab.                                            *)

TagVocab ==
    { <<"a", ";">>,                              \* a;
      <<"f", " ", "$", "$">>,                    \* f $$     opens $$
      <<"$", "$", ";">>,                         \* $$;      closes $$
      <<"f", " ", "$", "o", "$">>,               \* f $o$    opens $o$
      <<"$", "o", "$", ";">>,                    \* $o$;     closes $o$
      <<"$", "i", "$">>,                         \* $i$      another tag
      <<"$", "a", "$", "$", "b", "$", ";">> }    \* $a$$b$;  two tags, adjacent

TagInputs ==
    { JoinLines(ls) : ls \in UNION { [1..n -> TagVocab] : n \in 1..MaxLines } }

InitTags ==
    /\ pc = "split_loop"
    /\ sql_text \in TagInputs
    /\ line_idx = 1
    /\ statements = <<>>
    /\ current = <<>>
    /\ dollar_quote = None
    /\ split_trace = <<>>
    /\ RunIdle
    /\ MainIdle

SpecTags == InitTags /\ [][NextSplit]_vars

-----------------------------------------------------------------------------
(* execute_sql_file and execute_sql_statements.                            *)
(*                                                                         *)
(* The database is the environment: a call on it succeeds or raises, and   *)
(* the model takes every outcome.  Every connection is in autocommit mode, *)
(* where commit() and rollback() have no transaction to end and return;    *)
(* cursor() and close() do not raise.                                      *)

\* DB_CONFIG['dbname']
DefaultDb == <<"p", "o", "s", "t", "g", "r", "e", "s">>

AlreadyExists ==
    <<"a", "l", "r", "e", "a", "d", "y", " ", "e", "x", "i", "s", "t", "s">>

\* messages of the errors a statement can fail with
MsgExists == <<"t", " ">> \o AlreadyExists
MsgExistsUpper ==
    <<"T", " ", "A", "l", "r", "e", "a", "d", "y", " ",
      "E", "X", "I", "S", "T", "S">>
MsgSyntax == <<"s", "y", "n", "t", "a", "x">>
MsgOther == <<"b", "o", "o", "m">>

\* what cursor.execute(statement) can do: return, raise a psycopg2.Error,
\* raise an exception of another class
ExecuteOutcomes ==
    {Ok} \cup {[kind |-> "psycopg2.Error", msg |-> m] :
                   m \in {MsgExists, MsgExistsUpper, MsgSyntax}}
         \cup {[kind |-> "Exception", msg |-> MsgOther]}

\* what cursor.copy_expert(...) can do
CopyOutcomes ==
    {Ok, [kind |-> "psycopg2.Error", msg |-> MsgSyntax],
         [kind |-> "Exception", msg |-> MsgOther]}

\* what psycopg2.connect(...) can do
ConnectOutcomes == {Ok, [kind |-> "psycopg2.Error", msg |-> MsgOther]}

\* one call on the database, or one line printed
Ev(op, c, arg, data, o) ==
    [op |-> op, conn |-> c, arg |-> arg, data |-> data,
     outcome |-> o.kind, msg |-> o.msg]

Printed(what, text) == Ev(what, 0, text, <<>>, Ok)

\* parts[k] of Python, counted from 0
At(seq, k) == seq[k + 1]

\* a mutant: the message is searched as it is, capitals and all
MentionsAlreadyExistsExact(msg) == Contains(msg, AlreadyExists)

\* line 137
MentionsAlreadyExists(msg) == Contains(Lower(msg), AlreadyExists)

\* conn.close()
Closed(cs, c) == [cs EXCEPT ![c].open = FALSE]

\* a mutant: every connection is opened with DB_CONFIG as it is
OpenedToDefault(cs, db) ==
    Append(cs, [dbname |-> DefaultDb, open |-> TRUE, autocommit |-> TRUE])

\* psycopg2.connect(**config) returning, and conn.autocommit = True
Opened(cs, db) ==
    Append(cs, [dbname |-> db, open |-> TRUE, autocommit |-> TRUE])

\* the events of one ordinary statement, lines 131 to 139
StatementEvents(c, statement, o) ==
    IF Strip(statement) = <<>> THEN <<>>
    ELSE IF o.kind = "ok"
    THEN <<Ev("execute", c, statement, <<>>, o),
           Ev("commit", c, <<>>, <<>>, Ok)>>
    ELSE IF o.kind = "psycopg2.Error"
    THEN <<Ev("execute", c, statement, <<>>, o)>>
         \o (IF ~MentionsAlreadyExists(o.msg)
             THEN <<Printed("print_warning", o.msg)>> ELSE <<>>)
         \o <<Ev("rollback", c, <<>>, <<>>, Ok)>>
    ELSE <<Ev("execute", c, statement, <<>>, o)>>

\* a mutant: a statement that raises a psycopg2.Error ends the run
StatementRaisesAlways(o) == o.kind # "ok"

\* whether the exception of a statement leaves execute_sql_statements:
\* line 135 catches psycopg2.Error alone
StatementRaises(o) == o.kind = "Exception"

\* the events of one COPY block, lines 117 to 123
CopyEvents(c, part, o) ==
    IF o.kind = "ok"
    THEN <<Ev("copy_expert", c, CopyCommand(part), CopyData(part), o),
           Ev("commit", c, <<>>, <<>>, Ok)>>
    ELSE <<Ev("copy_expert", c, CopyCommand(part), CopyData(part), o),
           Printed("print_copy_warning", o.msg)>>

\* a mutant: the file is taken to be there
FileIsMissingNever(exists) == FALSE

\* line 26
FileIsMissing(exists) == ~exists

\* a mutant: a connection that could not be opened is used all the same
ConnectRaisesNever(o) == FALSE

\* lines 45 and 62: psycopg2.connect raises when the connection cannot be
\* opened
ConnectRaises(o) == o.kind # "ok"

\* lines 25 to 40
Start ==
    /\ pc = "start"
    /\ IF FileIsMissing(file_exists)
       THEN /\ log' = Append(log, Printed("print_not_found", <<>>))
            /\ result' = "False"
            /\ pc' = "returned"
            /\ UNCHANGED <<parts, current_db>>
       ELSE /\ log' = Append(log, Printed("print_reading", <<>>))
            /\ parts' = ReSplitConnect(content)
            /\ current_db' = DefaultDb
            /\ pc' = "first"
            /\ UNCHANGED result
    /\ UNCHANGED <<file_exists, content, i, conn, conns, exc, cursor,
                   copy_parts, part_idx, exec_statements, stmt_idx>>
    /\ UNCHANGED splitVars
    /\ UNCHANGED mainVars

\* lines 88 to 94, on entry to execute_sql_statements(conn, sql_content)
EnterStatements(sql_content) ==
    /\ cursor' = "open"
    /\ copy_parts' = ReSplitCopy(sql_content)
    /\ part_idx' = 0
    /\ pc' = "parts"

\* conn.cursor() of line 88, logged with the text the function was given
CursorEvent(c, sql_content) == Ev("cursor", c, sql_content, <<>>, Ok)

\* a mutant: the new connection is not bound to conn
ConnectHandleStale(cs, old) == IF old # 0 THEN old ELSE Len(cs) + 1

\* lines 45 and 62: conn is bound to the connection psycopg2.connect
\* returns, a new one at every call
ConnectHandle(cs, old) == Len(cs) + 1

\* a mutant: the text before the first directive always gets a connection
FirstPartIsRunAlways(part) == TRUE

\* line 44
FirstPartIsRun(part) == Strip(part) # <<>>

\* lines 43 to 48; i becomes the first index of the loop of line 51
FirstPart ==
    /\ pc = "first"
    /\ i' = 1
    /\ IF FirstPartIsRun(At(parts, 0))
       THEN \E o \in ConnectOutcomes :
              IF ~ConnectRaises(o)
              THEN LET c == ConnectHandle(conns, conn)
                   IN  /\ conns' = Opened(conns, DefaultDb)
                       /\ conn' = c
                       /\ log' = log \o
                            <<Ev("connect", Len(conns) + 1, DefaultDb, <<>>, o),
                              Printed("print_connected", current_db),
                              CursorEvent(c, At(parts, 0))>>
                       /\ EnterStatements(At(parts, 0))
                       /\ UNCHANGED exc
              ELSE /\ log' = Append(log, Ev("connect", 0, DefaultDb, <<>>, o))
                   /\ exc' = o
                   /\ pc' = "except"
                   /\ UNCHANGED <<conn, conns, cursor, copy_parts, part_idx>>
       ELSE /\ pc' = "loop"
            /\ UNCHANGED <<conn, conns, log, exc, cursor, copy_parts,
                           part_idx>>
    /\ UNCHANGED <<file_exists, content, parts, current_db, result,
                   exec_statements, stmt_idx>>
    /\ UNCHANGED splitVars
    /\ UNCHANGED mainVars

\* a mutant: the connection of the segment before is left open
CloseBeforeConnectNever(cs, c) == [conns |-> cs, events |-> <<>>]

\* lines 56 and 57: the connections after them, and the call made
CloseBeforeConnect(cs, c) ==
    IF c # 0
    THEN [conns |-> Closed(cs, c),
          events |-> <<Ev("close", c, <<>>, <<>>, Ok)>>]
    ELSE [conns |-> cs, events |-> <<>>]

\* one iteration of the loop of line 51, lines 52 to 68; i is advanced to
\* the index of the next iteration
NextSegment ==
    /\ pc = "loop"
    /\ i < Len(parts)
    /\ i' = i + 2
    /\ IF i < Len(parts) - 1
       THEN LET new_db    == At(parts, i)
                sql_block == At(parts, i + 1)
                closed    == CloseBeforeConnect(conns, conn)
                c         == ConnectHandle(closed.conns, conn)
            IN  \E o \in ConnectOutcomes :
                  IF ~ConnectRaises(o)
                  THEN /\ conns' = Opened(closed.conns, new_db)
                       /\ conn' = c
                       /\ current_db' = new_db
                       /\ UNCHANGED exc
                       /\ IF Strip(sql_block) # <<>>
                          THEN /\ log' = log \o closed.events \o
                                    <<Ev("connect", Len(conns) + 1, new_db,
                                         <<>>, o),
                                      Printed("print_connected", new_db),
                                      CursorEvent(c, sql_block)>>
                               /\ EnterStatements(sql_block)
                          ELSE /\ log' = log \o closed.events \o
                                    <<Ev("connect", Len(conns) + 1, new_db,
                                         <<>>, o),
                                      Printed("print_connected", new_db)>>
                               /\ UNCHANGED <<pc, cursor, copy_parts,
                                              part_idx>>
                  ELSE /\ conns' = closed.conns
                       /\ log' = log \o closed.events \o
                            <<Ev("connect", 0, new_db, <<>>, o)>>
                       /\ exc' = o
                       /\ pc' = "except"
                       /\ UNCHANGED <<conn, current_db, cursor, copy_parts,
                                      part_idx>>
       ELSE UNCHANGED <<pc, conn, conns, current_db, exc, log, cursor,
                        copy_parts, part_idx>>
    /\ UNCHANGED <<file_exists, content, parts, result, exec_statements,
                   stmt_idx>>
    /\ UNCHANGED splitVars
    /\ UNCHANGED mainVars

\* lines 70 and 71, once the loop of line 51 is over
Success ==
    /\ pc = "loop"
    /\ i >= Len(parts)
    /\ log' = Append(log, Printed("print_success", <<>>))
    /\ result' = "True"
    /\ pc' = "finally"
    /\ UNCHANGED <<file_exists, content, parts, i, current_db, conn, conns,
                   exc, cursor, copy_parts, part_idx, exec_statements,
                   stmt_idx>>
    /\ UNCHANGED splitVars
    /\ UNCHANGED mainVars

\* lines 96 to 98: a part of whitespace is passed over
SkipPart ==
    /\ pc = "parts"
    /\ part_idx < Len(copy_parts)
    /\ Strip(At(copy_parts, part_idx)) = <<>>
    /\ part_idx' = part_idx + 1
    /\ UNCHANGED <<pc, file_exists, content, parts, i, current_db, conn,
                   conns, result, exc, cursor, copy_parts, exec_statements,
                   stmt_idx, log>>
    /\ UNCHANGED splitVars
    /\ UNCHANGED mainVars

\* lines 101 to 124: a COPY FROM stdin block
CopyPart ==
    /\ pc = "parts"
    /\ part_idx < Len(copy_parts)
    /\ Strip(At(copy_parts, part_idx)) # <<>>
    /\ IsCopyBlock(At(copy_parts, part_idx))
    /\ \E o \in CopyOutcomes :
          log' = log \o CopyEvents(conn, At(copy_parts, part_idx), o)
    /\ part_idx' = part_idx + 1
    /\ UNCHANGED <<pc, file_exists, content, parts, i, current_db, conn,
                   conns, result, exc, cursor, copy_parts, exec_statements,
                   stmt_idx>>
    /\ UNCHANGED splitVars
    /\ UNCHANGED mainVars

\* lines 126 to 128: a part of ordinary statements is split
OrdinaryPart ==
    /\ pc = "parts"
    /\ part_idx < Len(copy_parts)
    /\ Strip(At(copy_parts, part_idx)) # <<>>
    /\ ~IsCopyBlock(At(copy_parts, part_idx))
    /\ exec_statements' = split_sql_statements(At(copy_parts, part_idx))
    /\ stmt_idx' = 0
    /\ pc' = "statements"
    /\ UNCHANGED <<file_exists, content, parts, i, current_db, conn, conns,
                   result, exc, cursor, copy_parts, part_idx, log>>
    /\ UNCHANGED splitVars
    /\ UNCHANGED mainVars

\* one iteration of the loop of line 130, lines 131 to 139
ExecStatement ==
    /\ pc = "statements"
    /\ stmt_idx < Len(exec_statements)
    /\ \E o \in ExecuteOutcomes :
          /\ log' = log \o StatementEvents(conn, At(exec_statements, stmt_idx), o)
          /\ IF Strip(At(exec_statements, stmt_idx)) # <<>> /\ StatementRaises(o)
             THEN /\ exc' = o
                  /\ pc' = "except"
                  /\ UNCHANGED <<stmt_idx, part_idx>>
             ELSE /\ stmt_idx' = stmt_idx + 1
                  /\ UNCHANGED <<pc, exc, part_idx>>
    /\ UNCHANGED <<file_exists, content, parts, i, current_db, conn, conns,
                   result, cursor, copy_parts, exec_statements>>
    /\ UNCHANGED splitVars
    /\ UNCHANGED mainVars

\* the loop of line 130 is over: on to the next part
EndOrdinaryPart ==
    /\ pc = "statements"
    /\ stmt_idx >= Len(exec_statements)
    /\ part_idx' = part_idx + 1
    /\ pc' = "parts"
    /\ UNCHANGED <<file_exists, content, parts, i, current_db, conn, conns,
                   result, exc, cursor, copy_parts, exec_statements,
                   stmt_idx, log>>
    /\ UNCHANGED splitVars
    /\ UNCHANGED mainVars

\* line 141, once the loop of line 96 is over: back in execute_sql_file
ReturnStatements ==
    /\ pc = "parts"
    /\ part_idx >= Len(copy_parts)
    /\ cursor' = "closed"
    /\ log' = Append(log, Ev("cursor_close", conn, <<>>, <<>>, Ok))
    /\ pc' = "loop"
    /\ UNCHANGED <<file_exists, content, parts, i, current_db, conn, conns,
                   result, exc, copy_parts, part_idx, exec_statements,
                   stmt_idx>>
    /\ UNCHANGED splitVars
    /\ UNCHANGED mainVars

\* lines 73 to 78: the handlers of execute_sql_file
Except ==
    /\ pc = "except"
    /\ log' = Append(log,
                Printed(IF exc.kind = "psycopg2.Error"
                        THEN "print_database_error" ELSE "print_error",
                        exc.msg))
    /\ result' = "False"
    /\ pc' = "finally"
    /\ UNCHANGED <<file_exists, content, parts, i, current_db, conn, conns,
                   exc, cursor, copy_parts, part_idx, exec_statements,
                   stmt_idx>>
    /\ UNCHANGED splitVars
    /\ UNCHANGED mainVars

\* a mutant: no finally clause
FinallyCloseNever(cs, c) == [conns |-> cs, events |-> <<>>]

\* lines 80 to 82: the connections after them, the call made and the line
\* printed
FinallyClose(cs, c) ==
    IF c # 0
    THEN [conns |-> Closed(cs, c),
          events |-> <<Ev("close", c, <<>>, <<>>, Ok),
                       Printed("print_closed", <<>>)>>]
    ELSE [conns |-> cs, events |-> <<>>]

\* lines 79 to 82, and the return
Finally ==
    /\ pc = "finally"
    /\ conns' = FinallyClose(conns, conn).conns
    /\ log' = log \o FinallyClose(conns, conn).events
    /\ pc' = "returned"
    /\ UNCHANGED <<file_exists, content, parts, i, current_db, conn, result,
                   exc, cursor, copy_parts, part_idx, exec_statements,
                   stmt_idx>>
    /\ UNCHANGED splitVars
    /\ UNCHANGED mainVars

-----------------------------------------------------------------------------
(* The dump files of the run: at most MaxChunks pieces, each piece one of  *)
(* ChunkVocab.                                                             *)

MaxChunks == 4

ConnectA == ConnectWord \o <<" ", "a", NL>>
ConnectB == ConnectWord \o <<" ", "b", NL>>
StatementX == <<"x", ";", NL>>
BlankLine == <<" ", NL>>
CopyBlock ==
    CopyWord \o <<" ", "t", " ">> \o FromWord \o <<" ">> \o StdinWord
        \o <<";", NL, "1", NL, "\\", ".", NL>>

ChunkVocab ==
    {ConnectA, ConnectB, StatementX, BlankLine, CopyBlock}

RunInputs ==
    { Concat(cs) : cs \in UNION { [1..n -> ChunkVocab] : n \in 0..MaxChunks } }

Init ==
    /\ pc = "start"
    /\ file_exists \in BOOLEAN
    /\ content \in (IF file_exists THEN RunInputs ELSE {<<>>})
    /\ parts = <<>>
    /\ i = 0
    /\ current_db = <<>>
    /\ conn = 0
    /\ conns = <<>>
    /\ result = "none"
    /\ exc = Ok
    /\ cursor = "none"
    /\ copy_parts = <<>>
    /\ part_idx = 0
    /\ exec_statements = <<>>
    /\ stmt_idx = 0
    /\ log = <<>>
    /\ SplitIdle
    /\ MainIdle

Next ==
    \/ Start
    \/ FirstPart
    \/ NextSegment
    \/ Success
    \/ SkipPart
    \/ CopyPart
    \/ OrdinaryPart
    \/ ExecStatement
    \/ EndOrdinaryPart
    \/ ReturnStatements
    \/ Except
    \/ Finally

Spec == Init /\ [][Next]_vars

-----------------------------------------------------------------------------
(* The dump files of the COPY blocks: a block of at most MaxRows data      *)
(* lines, each one of RowVocab, after nothing, a statement or a directive, *)
(* and before nothing or a statement.                                      *)

MaxRows == 2

CopyHeader ==
    CopyWord \o <<" ", "t", " ">> \o FromWord \o <<" ">> \o StdinWord
        \o <<";">>

RowVocab ==
    { <<"1">>, <<"2">>,
      <<>>,                 \* a row of one empty column
      <<"\\", "N">> }       \* a row of one NULL column

RECURSIVE LinesText(_)
LinesText(ls) ==
    IF Len(ls) = 0 THEN <<>> ELSE ls[1] \o <<NL>> \o LinesText(Tail(ls))

CopyInputs ==
    { pre \o LinesText(<<CopyHeader>> \o rows \o <<CopyEndLine>>) \o post :
        pre \in {<<>>, StatementX, ConnectA},
        rows \in UNION { [1..n -> RowVocab] : n \in 0..MaxRows },
        post \in {<<>>, StatementX} }

InitCopy ==
    /\ pc = "start"
    /\ file_exists \in BOOLEAN
    /\ content \in (IF file_exists THEN CopyInputs ELSE {<<>>})
    /\ parts = <<>>
    /\ i = 0
    /\ current_db = <<>>
    /\ conn = 0
    /\ conns = <<>>
    /\ result = "none"
    /\ exc = Ok
    /\ cursor = "none"
    /\ copy_parts = <<>>
    /\ part_idx = 0
    /\ exec_statements = <<>>
    /\ stmt_idx = 0
    /\ log = <<>>
    /\ SplitIdle
    /\ MainIdle

SpecCopy == InitCopy /\ [][Next]_vars

-----------------------------------------------------------------------------
(* The dump files of the COPY blocks that have no terminator: a header and *)
(* at most MaxRows lines after it, the last segment of the file.           *)

\* what can stand in the segment after the header
TailVocab == { <<"1">>, <<"2", ";">>, <<>> }

MalformedInputs ==
    { pre \o LinesText(<<CopyHeader>> \o rows) :
        pre \in {<<>>, StatementX, BlankLine, ConnectA, ConnectA \o StatementX,
                 CopyBlock},
        rows \in UNION { [1..n -> TailVocab] : n \in 0..MaxRows } }

InitMalformed ==
    /\ pc = "start"
    /\ file_exists \in BOOLEAN
    /\ content \in (IF file_exists THEN MalformedInputs ELSE {<<>>})
    /\ parts = <<>>
    /\ i = 0
    /\ current_db = <<>>
    /\ conn = 0
    /\ conns = <<>>
    /\ result = "none"
    /\ exc = Ok
    /\ cursor = "none"
    /\ copy_parts = <<>>
    /\ part_idx = 0
    /\ exec_statements = <<>>
    /\ stmt_idx = 0
    /\ log = <<>>
    /\ SplitIdle
    /\ MainIdle

SpecMalformed == InitMalformed /\ [][Next]_vars

-----------------------------------------------------------------------------
(* The dump files that hold the text of a directive inside a COPY block or *)
(* inside a dollar-quoted body: the directives of the dump itself name the *)
(* database b, the text inside the data and the body names a.              *)

\* the text of a directive, as a data line or a line of a function body
DirectiveLine == ConnectWord \o <<" ">> \o <<"a">>

\* a function whose body holds the text of a directive
FunctionWithDirective ==
    LinesText(<< <<"f", " ", "$", "$">>, DirectiveLine, <<"$", "$", ";">> >>)

EmbeddedInputs ==
    { pre \o body \o post :
        pre \in {<<>>, StatementX, ConnectB},
        body \in {FunctionWithDirective} \cup
                 { LinesText(<<CopyHeader>> \o rows \o <<CopyEndLine>>) :
                     rows \in UNION { [1..n -> {<<"1">>, DirectiveLine}] :
                                        n \in 0..MaxRows } },
        post \in {<<>>, StatementX} }

InitEmbedded ==
    /\ pc = "start"
    /\ file_exists \in BOOLEAN
    /\ content \in (IF file_exists THEN EmbeddedInputs ELSE {<<>>})
    /\ parts = <<>>
    /\ i = 0
    /\ current_db = <<>>
    /\ conn = 0
    /\ conns = <<>>
    /\ result = "none"
    /\ exc = Ok
    /\ cursor = "none"
    /\ copy_parts = <<>>
    /\ part_idx = 0
    /\ exec_statements = <<>>
    /\ stmt_idx = 0
    /\ log = <<>>
    /\ SplitIdle
    /\ MainIdle

SpecEmbedded == InitEmbedded /\ [][Next]_vars

-----------------------------------------------------------------------------
(* The dump files of the COPY blocks whose header is written on one line   *)
(* or with its column list on a line of its own.                           *)

\* COPY t (a,
\*  b) FROM stdin;
TwoLineHeader ==
    CopyWord \o <<" ", "t", " ", "(", "a", ",", NL, " ", "b", ")", " ">>
        \o FromWord \o <<" ">> \o StdinWord \o <<";">>

HeaderInputs ==
    { pre \o header \o <<NL>> \o LinesText(rows \o <<CopyEndLine>>) \o post :
        pre \in {<<>>, StatementX, ConnectA},
        header \in {CopyHeader, TwoLineHeader},
        rows \in UNION { [1..n -> {<<"1">>, <<"2">>}] : n \in 0..MaxRows },
        post \in {<<>>, StatementX} }

InitHeaders ==
    /\ pc = "start"
    /\ file_exists \in BOOLEAN
    /\ content \in (IF file_exists THEN HeaderInputs ELSE {<<>>})
    /\ parts = <<>>
    /\ i = 0
    /\ current_db = <<>>
    /\ conn = 0
    /\ conns = <<>>
    /\ result = "none"
    /\ exc = Ok
    /\ cursor = "none"
    /\ copy_parts = <<>>
    /\ part_idx = 0
    /\ exec_statements = <<>>
    /\ stmt_idx = 0
    /\ log = <<>>
    /\ SplitIdle
    /\ MainIdle

SpecHeaders == InitHeaders /\ [][Next]_vars

-----------------------------------------------------------------------------
(* The script run from the command line, lines 182 to 195.                 *)

\* a password the operator has put in place of the placeholder
UpdatedPassword == "secret"

\* lines 184 to 192: the placeholder password ends the script before
\* anything is read; the path of the dump is the default or sys.argv[1]
Main ==
    /\ pc = "main"
    /\ IF password = PlaceholderPassword
       THEN /\ log' = Append(log, Printed("print_password_warning", <<>>))
            /\ exit_code' = 1
            /\ pc' = "exited"
       ELSE /\ pc' = "start"
            /\ UNCHANGED <<log, exit_code>>
    /\ UNCHANGED <<file_exists, content, parts, i, current_db, conn, conns,
                   result, exc, cursor, copy_parts, part_idx, exec_statements,
                   stmt_idx, password>>
    /\ UNCHANGED splitVars

\* lines 194 and 195
Exit ==
    /\ pc = "returned"
    /\ exit_code' = IF result = "True" THEN 0 ELSE 1
    /\ pc' = "exited"
    /\ UNCHANGED <<file_exists, content, parts, i, current_db, conn, conns,
                   result, exc, cursor, copy_parts, part_idx, exec_statements,
                   stmt_idx, log, password>>
    /\ UNCHANGED splitVars

InitMain ==
    /\ pc = "main"
    /\ password \in {PlaceholderPassword, UpdatedPassword}
    /\ exit_code = -1
    /\ file_exists \in BOOLEAN
    /\ content \in (IF file_exists THEN RunInputs ELSE {<<>>})
    /\ parts = <<>>
    /\ i = 0
    /\ current_db = <<>>
    /\ conn = 0
    /\ conns = <<>>
    /\ result = "none"
    /\ exc = Ok
    /\ cursor = "none"
    /\ copy_parts = <<>>
    /\ part_idx = 0
    /\ exec_statements = <<>>
    /\ stmt_idx = 0
    /\ log = <<>>
    /\ SplitIdle

NextMain ==
    \/ Main
    \/ Next
    \/ Exit

SpecMain == InitMain /\ [][NextMain]_vars

-----------------------------------------------------------------------------
(* Properties of split_sql_statements, checked under SpecSplit.            *)

IsBlank(s) == Strip(s) = <<>>

DollarCount(s) == Cardinality({k \in 1..Len(s) : s[k] = "$"})

\* The text is one CREATE FUNCTION statement: the first line opens a tag
\* (its only two `$`), a later line is the first to hold the tag again and
\* ends in `;`, a line of the body between them ends in `;`, and only blank
\* lines follow the closing line.
IsFunctionText(text) ==
    LET ls  == SplitLines(text)
        tag == SearchDollar(ls[1])
    IN  /\ DollarCount(ls[1]) = 2
        /\ \E c \in 3..Len(ls) :
              /\ Contains(ls[c], tag)
              /\ EndsWith(Strip(ls[c]), ";")
              /\ \A k \in 2..(c - 1) : ~Contains(ls[k], tag)
              /\ \E k \in 2..(c - 1) : EndsWith(Strip(ls[k]), ";")
              /\ \A k \in (c + 1)..Len(ls) : IsBlank(ls[k])

\* C1: a line whose trimmed text ends in `;` ends the current statement
\* exactly when no dollar-quote tag is active once the line has been
\* scanned, and a CREATE FUNCTION statement whose body, between an opening
\* and a closing tag on different lines, has lines ending in `;` is emitted
\* as exactly one statement.
C1_SplitOnlyOutsideDollarQuote ==
    /\ \A k \in 1..Len(split_trace) :
          split_trace[k].emitted <=>
              /\ split_trace[k].tag = None
              /\ EndsWith(Strip(SplitLines(sql_text)[k]), ";")
    /\ (pc = "split_returned" /\ IsFunctionText(sql_text))
          => Len(statements) = 1

C1_Witness ==
    /\ pc = "split_returned"
    /\ IsFunctionText(sql_text)
    /\ Len(statements) = 1
    /\ \E k \in 1..Len(split_trace) :
          /\ ~split_trace[k].emitted
          /\ split_trace[k].tag # None
          /\ EndsWith(Strip(SplitLines(sql_text)[k]), ";")

\* The text holds ordinary statements only: no dollar-quote marker.
IsOrdinaryText(text) == DollarCount(text) = 0

\* C6: for a text of ordinary statements, the emitted statements put end to
\* end are the text followed by one newline, less at most a tail of
\* whitespace: nothing else is lost, repeated or moved.
C6_SplitRoundTrip ==
    (pc = "split_returned" /\ IsOrdinaryText(sql_text)) =>
        LET joined == Concat(statements)
            full   == sql_text \o <<NL>>
        IN  /\ Len(joined) <= Len(full)
            /\ Slice(full, 1, Len(joined)) = joined
            /\ IsBlank(Slice(full, Len(joined) + 1, Len(full)))

C6_Witness ==
    /\ pc = "split_returned"
    /\ IsOrdinaryText(sql_text)
    /\ Len(statements) >= 2
    /\ \E k \in 1..Len(statements) : Len(SplitLines(statements[k])) > 2
    /\ Len(Concat(statements)) < Len(sql_text) + 1

-----------------------------------------------------------------------------
(* Properties of the run, checked under Spec and SpecCopy.                 *)

IsConnect(e) == e.op = "connect"
IsExecute(e) == e.op = "execute"
IsCopyCall(e) == e.op = "copy_expert"
IsUnitCall(e) == e.op \in {"execute", "copy_expert"}
IsUnitEvent(e) ==
    e.op \in {"execute", "copy_expert", "commit", "rollback",
              "print_warning", "print_copy_warning"}

Handles == 1..Len(conns)

OpenHandles == {c \in Handles : conns[c].open}

AllConnectsOk == \A k \in 1..Len(log) : IsConnect(log[k]) => log[k].outcome = "ok"

\* what the log holds between the connect that returned handle c and the
\* close of c
SegmentEvents(c) ==
    LET from   == CHOOSE k \in 1..Len(log) : IsConnect(log[k]) /\ log[k].conn = c
        closes == {k \in (from + 1)..Len(log) :
                       log[k].op = "close" /\ log[k].conn = c}
        to     == IF closes = {} THEN Len(log) + 1
                  ELSE CHOOSE k \in closes : \A j \in closes : k <= j
    IN  Slice(log, from + 1, to - 1)

\* the text execute_sql_statements was given for handle c, None when it was
\* not called
SegmentText(c) ==
    LET calls == SelectSeq(SegmentEvents(c), LAMBDA e : e.op = "cursor")
    IN  IF Len(calls) = 0 THEN None ELSE calls[1].arg

Ops(es) == [k \in 1..Len(es) |-> es[k].op]
Args(es) == [k \in 1..Len(es) |-> es[k].arg]

\* The text is three ordinary statements, one to a line.
ThreeStatements(text) ==
    LET ls == SplitLines(text)
    IN  /\ DollarCount(text) = 0
        /\ ~Contains(Lower(text), Lower(CopyWord))
        /\ Cardinality({k \in 1..Len(ls) : EndsWith(Strip(ls[k]), ";")}) = 3
        /\ \A k \in 1..Len(ls) : IsBlank(ls[k]) \/ EndsWith(Strip(ls[k]), ";")

\* The database lets the first and the third statement of handle c pass and
\* fails the second with an error that holds "already exists".
SecondAlreadyExists(c) ==
    LET ex == SelectSeq(SegmentEvents(c), IsExecute)
    IN  \A k \in 1..Len(ex) :
           /\ k \in {1, 3} => ex[k].outcome = "ok"
           /\ k = 2 => /\ ex[k].outcome = "psycopg2.Error"
                       /\ Contains(ex[k].msg, AlreadyExists)

\* the three statements were executed, and they are the text of the segment
ThreeExecuted(c) ==
    LET ex     == SelectSeq(SegmentEvents(c), IsExecute)
        joined == Concat(Args(ex))
        text   == SegmentText(c)
    IN  /\ Len(ex) = 3
        /\ Len(joined) <= Len(text)
        /\ Slice(text, 1, Len(joined)) = joined
        /\ IsBlank(Slice(text, Len(joined) + 1, Len(text)))

NoDirective(text) == ~Contains(text, ConnectWord)

\* One connection was asked for, to the default database; when it was
\* opened, the whole text went to execute_sql_statements on it and every
\* statement and COPY ran on it.
RunOnDefaultOnly ==
    LET cn == SelectSeq(log, IsConnect)
    IN  /\ Len(cn) = 1
        /\ cn[1].arg = DefaultDb
        /\ cn[1].outcome = "ok" =>
              /\ conns[cn[1].conn].dbname = DefaultDb
              /\ SegmentText(cn[1].conn) = content
              /\ \A k \in 1..Len(log) :
                    IsUnitCall(log[k]) => log[k].conn = cn[1].conn

NothingRun ==
    /\ conns = <<>>
    /\ \A k \in 1..Len(log) :
          ~IsConnect(log[k]) /\ ~IsUnitEvent(log[k]) /\ log[k].op # "cursor"

\* C4 as the specification states it: also an empty or blank file is run
\* against the default database.
C4_AlwaysRunOnDefault ==
    (pc = "returned" /\ file_exists /\ NoDirective(content)) =>
        /\ Len(parts) = 1
        /\ parts[1] = content
        /\ RunOnDefaultOnly

\* C4, amended: a file with no \connect directive makes one segment; when it
\* is not blank the segment is run against the default database on a
\* connection opened with the default parameters, and when it is empty or
\* blank no connection is opened and nothing is run.
C4_OneSegmentOnDefault ==
    (pc = "returned" /\ file_exists /\ NoDirective(content)) =>
        /\ Len(parts) = 1
        /\ parts[1] = content
        /\ IF IsBlank(content) THEN NothingRun ELSE RunOnDefaultOnly

C4_Witness ==
    /\ pc = "returned"
    /\ file_exists
    /\ NoDirective(content)
    /\ ~IsBlank(content)
    /\ \E k \in 1..Len(log) : IsExecute(log[k]) /\ log[k].outcome = "ok"
    /\ \E k \in 1..Len(log) : IsCopyCall(log[k])

DbA == <<"a">>
DbB == <<"b">>

\* The file holds two directives: \connect a, then \connect b.
ConnectAThenB(text) ==
    LET at == {p \in 1..Len(text) :
                   text[p] = "\\" /\ OccursAt(text, ConnectWord, p)}
    IN  \E p, q \in at :
           /\ p < q
           /\ at = {p, q}
           /\ OccursAt(text, ConnectWord \o <<" ">> \o DbA \o <<NL>>, p)
           /\ OccursAt(text, ConnectWord \o <<" ">> \o DbB \o <<NL>>, q)

\* C5: a file with \connect a and then \connect b makes two segments after
\* the first, for a and for b in that order; what is executed after the
\* connection to b runs on the connection that connect returned, on which
\* nothing of a was executed, and while the segment of b runs that
\* connection alone is open.
C5_TwoSegmentsTwoConnections ==
    (pc # "start" /\ file_exists /\ ConnectAThenB(content)) =>
        /\ Len(parts) = 5
        /\ parts[2] = DbA
        /\ parts[4] = DbB
        /\ parts[1] \o ConnectWord \o <<" ">> \o DbA \o parts[3]
              \o ConnectWord \o <<" ">> \o DbB \o parts[5] = content
        /\ \A j \in {n \in 1..Len(log) : IsConnect(log[n])} :
              (log[j].arg = DbB /\ log[j].outcome = "ok") =>
                  /\ \A k \in (j + 1)..Len(log) :
                        IsUnitCall(log[k]) => log[k].conn = log[j].conn
                  /\ \A m \in 1..(j - 1) :
                        IsUnitCall(log[m]) => log[m].conn # log[j].conn
        /\ (pc \in {"parts", "statements"} /\ current_db = DbB) =>
              OpenHandles = {conn}

C5_Witness ==
    /\ pc = "returned"
    /\ ConnectAThenB(content)
    /\ \E j, k \in 1..Len(log) :
          /\ IsUnitCall(log[j]) /\ conns[log[j].conn].dbname = DbA
          /\ IsUnitCall(log[k]) /\ conns[log[k].conn].dbname = DbB

\* C7: at most one connection is open in every state, and before a
\* connection is asked for every connection opened earlier has been closed,
\* whatever the statements of the earlier segments did.
C7_AtMostOneConnectionOpen ==
    /\ Cardinality(OpenHandles) <= 1
    /\ \A m, j \in {n \in 1..Len(log) : IsConnect(log[n])} :
          (m < j /\ log[m].outcome = "ok") =>
              \E k \in (m + 1)..(j - 1) :
                  log[k].op = "close" /\ log[k].conn = log[m].conn

C7_Witness ==
    /\ Len(conns) >= 2
    /\ OpenHandles = {Len(conns)}
    /\ \E k \in 1..Len(log) :
          /\ IsExecute(log[k])
          /\ log[k].conn = 1
          /\ log[k].outcome = "psycopg2.Error"

\* C8: when execute_sql_file has returned, no connection it opened is open.
C8_NoConnectionLeftOpen ==
    pc = "returned" => OpenHandles = {}

C8_Witness ==
    /\ pc = "returned"
    /\ result = "False"
    /\ Len(conns) >= 2
    /\ exc.kind = "Exception"

\* C9: execute_sql_file returns True exactly when the file was read and
\* every connection asked for was opened; no failure of a statement or of a
\* COPY, whatever it raises, makes it return False.
C9_SuccessIffFileAndConnections ==
    pc = "returned" => (result = "True" <=> (file_exists /\ AllConnectsOk))

\* the units of a file of ordinary statements and COPY blocks, one to a
\* line: the lines that end in `;`
UnitCount(text) ==
    LET ls == SplitLines(text)
    IN  Cardinality({k \in 1..Len(ls) : EndsWith(Strip(ls[k]), ";")})

\* C10: a unit that fails does not end the run: when every connection was
\* opened, every unit of every segment of the file has been attempted by the
\* time the run returns.
C10_EveryUnitAttempted ==
    (pc = "returned" /\ file_exists /\ AllConnectsOk) =>
        Len(SelectSeq(log, IsUnitCall)) = UnitCount(content)

\* the data lines of the COPY block of the file: the lines after the header
\* up to the first line that is `\.`
BlockRows(text) ==
    LET ls == SplitLines(text)
        h  == CHOOSE k \in 1..Len(ls) : ls[k] = CopyHeader
        t  == CHOOSE k \in (h + 1)..Len(ls) :
                  /\ ls[k] = CopyEndLine
                  /\ \A j \in (h + 1)..(k - 1) : ls[j] # CopyEndLine
    IN  Slice(ls, h + 1, t - 1)

\* C2: a COPY block of N data lines and a terminator is executed as one COPY
\* whose stream is those N lines in order, whatever the lines hold, and no
\* text of the block is executed as an ordinary statement.
C2_CopyCarriesItsRows ==
    (pc = "returned" /\ result = "True") =>
        LET cp == SelectSeq(log, IsCopyCall)
        IN  /\ Len(cp) = 1
            /\ cp[1].arg = CopyHeader
            /\ cp[1].data = JoinLines(BlockRows(content))
            /\ \A k \in 1..Len(log) :
                  IsExecute(log[k]) => Strip(log[k].arg) = Strip(StatementX)

\* C11: when the path of the dump does not exist, execute_sql_file prints
\* that the file was not found and returns False; no connection is asked
\* for and nothing is executed, committed or rolled back.
C11_MissingFileNoSideEffect ==
    (pc # "start" /\ ~file_exists) =>
        /\ pc = "returned"
        /\ result = "False"
        /\ log = <<Printed("print_not_found", <<>>)>>
        /\ conns = <<>>
        /\ conn = 0

C11_Witness ==
    /\ ~file_exists
    /\ pc = "returned"
    /\ result = "False"
    /\ Len(log) = 1

IsErrorPrint(e) == e.op \in {"print_database_error", "print_error"}

\* C12: a connection that cannot be opened, for the text before the first
\* directive or for a \connect, ends the run: after it nothing is executed,
\* no cursor is made, no connection is asked for, the error is printed and
\* execute_sql_file returns False.
C12_ConnectFailureAbortsRun ==
    \A j \in {n \in 1..Len(log) : IsConnect(log[n])} :
        log[j].outcome # "ok" =>
            /\ \A k \in (j + 1)..Len(log) :
                  log[k].op \in {"print_database_error", "print_error",
                                 "close", "print_closed"}
            /\ pc \in {"except", "finally", "returned"}
            /\ pc \in {"finally", "returned"} =>
                  /\ result = "False"
                  /\ j < Len(log)
                  /\ IsErrorPrint(log[j + 1])
                  /\ log[j + 1].arg = log[j].msg

\* a connection fails at the first segment in one run and at a \connect,
\* after statements of an earlier segment ran, in another
C12_Witness ==
    /\ pc = "returned"
    /\ result = "False"
    /\ \E j \in 1..Len(log) :
          /\ IsConnect(log[j])
          /\ log[j].outcome # "ok"
          /\ log[j].arg = DbB
          /\ \E k \in 1..(j - 1) : IsUnitCall(log[k])
    /\ UnitCount(content) > Len(SelectSeq(log, IsUnitCall))

\* the message holds "already exists", in capitals or not
HoldsAlreadyExists(msg) ==
    \E p \in 1..Len(msg) : OccursAtNoCase(msg, AlreadyExists, p)

\* the statements that failed with an error that holds "already exists"
ExistsFailures ==
    {k \in 1..Len(log) : /\ IsExecute(log[k])
                         /\ log[k].outcome = "psycopg2.Error"
                         /\ HoldsAlreadyExists(log[k].msg)}

\* the run goes on after the events of the unit that end at log[k]
GoesOnAfter(k) ==
    /\ k = Len(log) => pc \in {"statements", "parts"} /\ exc = Ok
    /\ k < Len(log) =>
          log[k + 1].op \in {"execute", "copy_expert", "cursor_close"}

C14_FailureWarnedAndRolledBack ==
    \A k \in {n \in 1..Len(log) : IsUnitCall(log[n])} :
        (log[k].outcome # "ok" /\ ~HoldsAlreadyExists(log[k].msg)) =>
            /\ k + 2 <= Len(log)
            /\ log[k + 1].op \in {"print_warning", "print_copy_warning"}
            /\ log[k + 1].arg = log[k].msg
            /\ log[k + 2].op = "rollback"
            /\ log[k + 2].conn = log[k].conn

\* the events that follow the unit call log[k], up to the next unit call
FollowUnit(k) ==
    {j \in (k + 1)..Len(log) :
        \A m \in (k + 1)..j : ~IsUnitCall(log[m])}

\* C15: a commit follows every statement and every COPY that succeeded,
\* before the next unit and on the same connection; no commit follows one
\* that failed; one commit or one rollback, and not both, follows every
\* ordinary statement that was executed.
C15_CommitGranularity ==
    \A k \in {n \in 1..Len(log) : IsUnitCall(log[n])} :
        LET ends == {j \in FollowUnit(k) : log[j].op \in {"commit", "rollback"}}
        IN  /\ log[k].outcome = "ok" =>
                  /\ k + 1 \in ends
                  /\ log[k + 1].op = "commit"
                  /\ log[k + 1].conn = log[k].conn
            /\ log[k].outcome # "ok" =>
                  \A j \in ends : log[j].op # "commit"
            /\ IsExecute(log[k]) => Cardinality(ends) = 1

\* the text of the file that a call stands for: the directive of a
\* connection to a database of a \connect (no file of the runs names the
\* default database in a directive), the statement handed to execute, the
\* header handed to copy_expert
TextOf(e) ==
    IF IsConnect(e) THEN ConnectWord \o <<" ">> \o e.arg ELSE e.arg

IsOrdered(e) ==
    \/ IsUnitCall(e)
    \/ IsConnect(e) /\ e.arg # DefaultDb

\* the texts are found in the file one after the other, none before or
\* inside the one found before it
RECURSIVE InOrderFrom(_, _, _)
InOrderFrom(text, from, needles) ==
    IF Len(needles) = 0 THEN TRUE
    ELSE LET ps == {p \in from..Len(text) : OccursAt(text, needles[1], p)}
         IN  IF ps = {} THEN FALSE
             ELSE LET first == CHOOSE p \in ps : \A q \in ps : p <= q
                  IN  InOrderFrom(text, first + Len(needles[1]),
                                  Tail(needles))

\* C16: the connections of the directives, the statements and the COPY
\* blocks are taken in the order of their text in the file: what has been
\* called so far lies in the file in the order of the calls, each text after
\* the end of the one before it, so that nothing runs before what precedes
\* it and nothing runs twice.
C16_ExecutedInFileOrder ==
    LET called == SelectSeq(log, IsOrdered)
    IN  InOrderFrom(content, 1, [k \in 1..Len(called) |-> TextOf(called[k])])

C16_Witness ==
    /\ pc = "returned"
    /\ \E j, k, m, n \in 1..Len(log) :
          /\ j < k /\ k < m /\ m < n
          /\ IsExecute(log[j]) /\ IsCopyCall(log[k])
          /\ IsConnect(log[m]) /\ log[m].arg = DbA /\ IsExecute(log[n])

\* where the last COPY header of the text starts
LastHeaderAt(text) ==
    LET at == {p \in 1..Len(text) : OccursAt(text, CopyHeader \o <<NL>>, p)}
    IN  CHOOSE p \in at : \A q \in at : q <= p

\* the text after the last COPY header and the end of its line
AfterLastHeader(text) ==
    Slice(text, LastHeaderAt(text) + Len(CopyHeader) + 1, Len(text))

\* C17: when the last COPY header of a segment has no terminator line after
\* it, the rest of the segment after the header is the data of that COPY and
\* none of it, the header included, is executed as an ordinary statement.
C17_RemainderIsCopyData ==
    (pc = "returned" /\ result = "True") =>
        LET cp == SelectSeq(log, IsCopyCall)
        IN  /\ Len(cp) >= 1
            /\ cp[Len(cp)].arg = CopyHeader
            /\ Strip(cp[Len(cp)].data) = Strip(AfterLastHeader(content))
            /\ \A k \in 1..Len(log) :
                  IsExecute(log[k]) => Strip(log[k].arg) = Strip(StatementX)

\* the connect calls made before log[k]
ConnectsBefore(k) == {n \in 1..(k - 1) : IsConnect(log[n])}

\* the segment the unit call log[k] belongs to, 0 for the text before the
\* first directive: the connect calls before it are one to a segment, from
\* segment 0 when that text is not blank and from segment 1 when it is
SegmentOf(k) ==
    IF IsBlank(parts[1]) THEN Cardinality(ConnectsBefore(k))
    ELSE Cardinality(ConnectsBefore(k)) - 1

\* the database segment s is to run on
TargetDb(s) == IF s = 0 THEN DefaultDb ELSE parts[2 * s]

\* C18: every statement and every COPY is taken from the text of its
\* segment and runs on the connection opened last, which was opened to the
\* database of that segment and is in autocommit mode; a connection that is
\* open is a connection to current_db.
C18_UnitRunsOnSegmentDatabase ==
    /\ \A k \in {n \in 1..Len(log) : IsUnitCall(log[n])} :
          LET before == ConnectsBefore(k)
              last   == CHOOSE n \in before : \A m \in before : m <= n
              s      == SegmentOf(k)
          IN  /\ before # {}
              /\ log[last].outcome = "ok"
              /\ log[last].conn = log[k].conn
              /\ log[last].arg = TargetDb(s)
              /\ conns[log[k].conn].dbname = TargetDb(s)
              /\ conns[log[k].conn].autocommit
              /\ Contains(parts[2 * s + 1], log[k].arg)
    /\ \A c \in OpenHandles :
          /\ c = conn
          /\ conns[c].dbname = current_db
          /\ conns[c].autocommit

C18_Witness ==
    /\ pc = "statements"
    /\ current_db = DbA
    /\ \E j, k \in 1..Len(log) :
          /\ IsCopyCall(log[j]) /\ conns[log[j].conn].dbname = DefaultDb
          /\ IsExecute(log[k]) /\ conns[log[k].conn].dbname = DbA

\* C19: the script exits with 0 or 1, and with 1 exactly when the file is
\* missing or a connection could not be opened; in every other run, where
\* the file was read and every segment attempted, it exits with 0.
C19_ExitCodeTellsFileAndConnections ==
    pc = "exited" =>
        /\ exit_code \in {0, 1}
        /\ exit_code = 1 <=> (~file_exists \/ ~AllConnectsOk)

\* the data of the COPY call holds the data lines that are not blank, all
\* of them and in order
CarriesRows(data, rows) ==
    LET NotBlank(line) == ~IsBlank(line)
    IN  SelectSeq(SplitLines(data), NotBlank) = SelectSeq(rows, NotBlank)

\* C20: the data of a COPY block ends at the first line that is `\.` and at
\* no line before it: a line of a backslash and another character is a data
\* line, and the lines after it still go to the same COPY.
C20_BlockEndsAtTerminatorOnly ==
    (pc = "returned" /\ result = "True") =>
        LET cp == SelectSeq(log, IsCopyCall)
        IN  /\ Len(cp) = 1
            /\ CarriesRows(cp[1].data, BlockRows(content))

-----------------------------------------------------------------------------
(* Properties of the dollar-quote scan, checked under SpecTags and         *)
(* SpecSplit.                                                              *)

\* the dollar-quote markers of a line from position p on: the text from a
\* `$` to the next `$`, one marker after the other
RECURSIVE MarkersFrom(_, _)
MarkersFrom(line, p) ==
    LET a == IF p > Len(line) THEN 0 ELSE FindChar(line, "$", p)
        b == IF a = 0 \/ a = Len(line) THEN 0 ELSE FindChar(line, "$", a + 1)
    IN  IF b = 0 THEN <<>>
        ELSE <<Slice(line, a, b)>> \o MarkersFrom(line, b + 1)

Markers(line) == MarkersFrom(line, 1)

\* the tag active before line k is scanned
TagBefore(k) == IF k = 1 THEN None ELSE split_trace[k - 1].tag

\* C21: a tag that is active is cleared only by a line in which that very
\* tag stands as a dollar-quote marker; a line that holds other tags, or the
\* text of the tag only across two adjacent other tags, leaves it active.
C21_ClearedByExactTagOnly ==
    \A k \in 1..Len(split_trace) :
        (TagBefore(k) # None /\ split_trace[k].tag = None) =>
            \E m \in 1..Len(Markers(SplitLines(sql_text)[k])) :
                Markers(SplitLines(sql_text)[k])[m] = TagBefore(k)

\* the line opens a quoted region and closes it: two markers, the same tag
OpensAndCloses(line) ==
    /\ Len(Markers(line)) = 2
    /\ Markers(line)[1] = Markers(line)[2]

\* C22: a line read outside any quoted region on which a tag stands twice
\* leaves no tag active, and when its trimmed text ends in `;` the statement
\* ends on it.
C22_SameLineRegionCloses ==
    \A k \in 1..Len(split_trace) :
        LET line == SplitLines(sql_text)[k]
        IN  (TagBefore(k) = None /\ OpensAndCloses(line)) =>
                /\ split_trace[k].tag = None
                /\ EndsWith(Strip(line), ";") => split_trace[k].emitted

\* every `$` of the line starts a positional parameter: a digit follows it
OnlyPositionalParameters(line) ==
    /\ DollarCount(line) >= 2
    /\ \A p \in 1..Len(line) :
          line[p] = "$" => (p < Len(line) /\ line[p + 1] \in Digits)

\* C23: a line read outside any quoted region whose `$` characters all
\* belong to positional parameters sets no tag, and when its trimmed text
\* ends in `;` the statement ends on it.
C23_ParametersOpenNoRegion ==
    \A k \in 1..Len(split_trace) :
        LET line == SplitLines(sql_text)[k]
        IN  (TagBefore(k) = None /\ OnlyPositionalParameters(line)) =>
                /\ split_trace[k].tag = None
                /\ EndsWith(Strip(line), ";") => split_trace[k].emitted

\* the lines on which a statement ends: the trimmed text ends in `;` and no
\* tag is active once the line has been scanned
BoundaryLines ==
    {k \in 1..Len(split_trace) :
        /\ split_trace[k].tag = None
        /\ EndsWith(Strip(SplitLines(sql_text)[k]), ";")}

\* the j-th boundary line, 0 for j = 0
BoundaryAt(j) ==
    IF j = 0 THEN 0
    ELSE CHOOSE b \in BoundaryLines :
             Cardinality({x \in BoundaryLines : x <= b}) = j

\* lines a to b of the text, each with its newline
LinesOf(a, b) == LinesText(Slice(SplitLines(sql_text), a, b))

\* C24: the statements emitted are the text cut after every boundary line
\* and nowhere else: the j-th statement is the lines after the boundary
\* before it up to the j-th boundary line, and the lines after the last
\* boundary are one more statement when they are not all whitespace and are
\* dropped when they are.
C24_BoundariesExact ==
    pc = "split_returned" =>
        LET m    == Cardinality(BoundaryLines)
            n    == Len(SplitLines(sql_text))
            rest == LinesOf(BoundaryAt(m) + 1, n)
        IN  /\ Len(statements) = m + (IF IsBlank(rest) THEN 0 ELSE 1)
            /\ \A j \in 1..m :
                  statements[j] = LinesOf(BoundaryAt(j - 1) + 1, BoundaryAt(j))
            /\ ~IsBlank(rest) => statements[m + 1] = rest

C24_Witness ==
    /\ pc = "split_returned"
    /\ Len(statements) = 2
    /\ Cardinality(BoundaryLines) = 1
    /\ BoundaryAt(1) = 3
    /\ \E k \in 1..2 : EndsWith(Strip(SplitLines(sql_text)[k]), ";")
    /\ Len(SplitLines(sql_text)) = 4

-----------------------------------------------------------------------------
(* Properties of the segments and of the COPY blocks.                      *)

\* a directive starts at position p of the text: \connect, whitespace, a
\* word
DirectiveAt(text, p) ==
    /\ OccursAt(text, ConnectWord, p)
    /\ \E q \in (p + Len(ConnectWord) + 1)..Len(text) :
          /\ IsWord(text[q])
          /\ \A r \in (p + Len(ConnectWord))..(q - 1) : IsSpace(text[r])

Directives(text) == {p \in 1..Len(text) : text[p] = "\\" /\ DirectiveAt(text, p)}

\* the text before the first directive, the whole text when there is none
LeadingText(text) ==
    IF Directives(text) = {} THEN text
    ELSE LET first == CHOOSE p \in Directives(text) :
                          \A q \in Directives(text) : p <= q
         IN  Slice(text, 1, first - 1)

\* C25: when every connection asked for was opened, the run has opened as
\* many connections as the file has \connect directives, and one more when
\* the text before the first directive is not blank.
C25_ConnectionPerDirective ==
    (pc = "returned" /\ file_exists /\ AllConnectsOk) =>
        Len(conns) = Cardinality(Directives(content))
                       + (IF IsBlank(LeadingText(content)) THEN 0 ELSE 1)

\* C26: the text of a directive inside the data lines of a COPY block or
\* inside a dollar-quoted body makes no segment and no connection: in the
\* files of EmbeddedInputs, where such text alone names the database a,
\* no segment is for a and no connection to a is asked for.
C26_EmbeddedDirectiveIgnored ==
    /\ \A j \in 1..Len(parts) : j % 2 = 0 => parts[j] # DbA
    /\ \A k \in 1..Len(log) : IsConnect(log[k]) => log[k].arg # DbA

\* the header of the COPY block of the file: the text from COPY to the `;`
\* after stdin
HeaderOf(text) ==
    LET from == CHOOSE p \in 1..Len(text) :
                    /\ OccursAt(text, CopyWord, p)
                    /\ \A q \in 1..(p - 1) : ~OccursAt(text, CopyWord, q)
        to   == CHOOSE p \in from..Len(text) :
                    /\ OccursAt(text, StdinWord \o <<";">>, p)
                    /\ \A q \in from..(p - 1) :
                          ~OccursAt(text, StdinWord \o <<";">>, q)
    IN  Slice(text, from, to + Len(StdinWord))

\* C27: the command handed to copy_expert is the whole header of the block,
\* from COPY to `FROM stdin;`, on one line or on several, and no line of
\* the header is in the data handed with it.
C27_CommandIsWholeHeader ==
    (pc = "returned" /\ result = "True") =>
        LET cp == SelectSeq(log, IsCopyCall)
        IN  /\ Len(cp) = 1
            /\ cp[1].arg = HeaderOf(content)
            /\ \A j \in 1..Len(SplitLines(cp[1].data)) :
                  \A h \in 1..Len(SplitLines(HeaderOf(content))) :
                      SplitLines(cp[1].data)[j] # SplitLines(HeaderOf(content))[h]

\* the rows from the first one that is not blank, none when all are blank
FromFirstRow(rows) ==
    LET full == {k \in 1..Len(rows) : ~IsBlank(rows[k])}
    IN  IF full = {} THEN <<>>
        ELSE Slice(rows, CHOOSE k \in full : \A j \in full : k <= j,
                   Len(rows))

\* C28: the data of a COPY block is its data lines from the first line that
\* is not blank up to the terminator, blank lines among them kept, joined
\* by newlines with no newline after the last.
C28_LeadingBlankRowsDropped ==
    (pc = "returned" /\ result = "True") =>
        LET cp == SelectSeq(log, IsCopyCall)
        IN  /\ Len(cp) >= 1
            /\ cp[1].data = JoinLines(FromFirstRow(BlockRows(content)))

\* the text is whitespace from end to end, or empty
OnlyWhitespace(s) == \A k \in 1..Len(s) : IsSpace(s[k])

IsSent(e) == e.op \in {"execute", "copy_expert", "commit", "rollback"}

\* C29: no text of whitespace alone goes to the database: every statement
\* executed and every COPY command holds more than whitespace, every commit
\* and rollback follows the statement or COPY it is for, and all of them run
\* for a segment whose text holds more than whitespace, so that a blank
\* part, a blank statement and a blank segment cause none of them.
C29_NoBlankTextSent ==
    \A k \in {n \in 1..Len(log) : IsSent(log[n])} :
        /\ IsUnitCall(log[k]) => ~OnlyWhitespace(log[k].arg)
        /\ ~IsUnitCall(log[k]) =>
              \/ IsUnitCall(log[k - 1])
              \/ log[k - 1].op = "print_warning" /\ IsUnitCall(log[k - 2])
        /\ \E j \in 1..(k - 1) :
              /\ log[j].op = "cursor"
              /\ log[j].conn = log[k].conn
              /\ ~OnlyWhitespace(log[j].arg)

\* two COPY blocks with a blank part between them, then a blank segment
C29_Witness ==
    /\ pc = "returned"
    /\ result = "True"
    /\ content = CopyBlock \o BlankLine \o CopyBlock \o ConnectA
    /\ Len(conns) = 2
    /\ Len(SelectSeq(log, IsCopyCall)) = 2
    /\ \A k \in 1..Len(log) : IsSent(log[k]) => log[k].conn = 1

\* C30: once execute_sql_statements has been left, by its return or by an
\* exception on its way to the handlers of execute_sql_file, the cursor it
\* opened is closed.
C30_CursorClosedOnLeaving ==
    pc \in {"loop", "except", "finally", "returned"} => cursor # "open"

=============================================================================
